---- MODULE Spec2Model ----
(***************************************************************************)
(* Model of the pr-tracker monitoring loop (cmd/main.go, run), of the      *)
(* pure helpers of internal/bitbucket (FilterPRs, IsPRApproved,            *)
(* CountApprovals, GetLastActivity) and of the checkpoint store            *)
(* (pkg/models, FileNotificationStateStore).                               *)
(*                                                                         *)
(* Time.  An instant (time.Time, or an int64 of epoch milliseconds) is a   *)
(* record [d, ms]: whole days since 1970-01-01 and milliseconds within     *)
(* that day.  The clock of the model has millisecond resolution.           *)
(* Durations are records of the same shape, normalised with 0 <= ms.       *)
(***************************************************************************)
EXTENDS Integers, Sequences, FiniteSets, TLC

\* time.Hour, in milliseconds
HourMs == 3600000
\* the divisor 24 of "Hours() / 24", in milliseconds
DayMs == 24 * HourMs
\* one second, the resolution of the time.RFC3339 layout
SecMs == 1000
\* day number of 0001-01-01, the zero time.Time
ZeroDay == -719162
\* day numbers of 0000-01-01 and 9999-12-31: the years time.Parse accepts
\* under the RFC3339 layout (exactly four year digits)
MinParseDay == -719528
MaxParseDay == 2932896

Norm(d, ms) == [d |-> d + (ms \div DayMs), ms |-> ms % DayMs]

T(d, ms) == [d |-> d, ms |-> ms]

AddMs(t, ms) == Norm(t.d, t.ms + ms)

AddHours(t, h) == Norm(t.d, t.ms + h * HourMs)

AddDays(t, n) == [d |-> t.d + n, ms |-> t.ms]

\* a.Before(b), a.After(b) and ordering of durations
Less(a, b) == a.d < b.d \/ (a.d = b.d /\ a.ms < b.ms)

After(a, b) == Less(b, a)

GEq(a, b) == ~Less(a, b)

\* the zero time.Time and IsZero
ZeroTime == [d |-> ZeroDay, ms |-> 0]

IsZero(t) == t = ZeroTime

\* the int64 0 of CreatedDate / UpdatedDate: the Unix epoch
Epoch == [d |-> 0, ms |-> 0]

\* time.UnixMilli: the instant that many milliseconds after the epoch
UnixMilli(msec) == [d |-> msec.d, ms |-> msec.ms]

\* time.Duration is an int64 of nanoseconds: the largest and smallest values
MaxDuration == [d |-> 106751, ms |-> 85636854]

MinDuration == [d |-> -106752, ms |-> 763145]

\* time.Since(t) == time.Now().Sub(t), saturating as Time.Sub does
Since(clock, t) ==
  LET diff == Norm(clock.d - t.d, clock.ms - t.ms)
  IN  IF Less(MaxDuration, diff) THEN MaxDuration
      ELSE IF Less(diff, MinDuration) THEN MinDuration
      ELSE diff

\* time.Duration(hours) * time.Hour
HoursDuration(h) == Norm(h \div 24, (h % 24) * HourMs)

\* int(d.Hours() / 24): the conversion to int truncates toward zero
TruncDays(dur) == IF dur.d >= 0 \/ dur.ms = 0 THEN dur.d ELSE dur.d + 1

\* last.Format(time.RFC3339): a string with whole seconds; the model keeps
\* the day and the second of the day, <<>> is the empty string
FormatRFC3339(t) == <<t.d, t.ms \div SecMs>>

\* time.Parse(time.RFC3339, s): fails unless the year has four digits
ParseRFC3339(s) ==
  IF Len(s) # 2 \/ s[1] < MinParseDay \/ s[1] > MaxParseDay
  THEN [ok |-> FALSE, t |-> ZeroTime]
  ELSE [ok |-> TRUE, t |-> [d |-> s[1], ms |-> s[2] * SecMs]]

(***************************************************************************)
(* Strings that the code inspects (titles, keywords) are sequences of      *)
(* one-character strings.                                                  *)
(***************************************************************************)
UpperChars == <<"W", "I", "P", "X">>

LowerChars == <<"w", "i", "p", "x">>

ToLowerChar(c) ==
  IF \E i \in 1..Len(UpperChars) : UpperChars[i] = c
  THEN LowerChars[CHOOSE i \in 1..Len(UpperChars) : UpperChars[i] = c]
  ELSE c

\* strings.ToLower
ToLower(s) == [i \in 1..Len(s) |-> ToLowerChar(s[i])]

\* mutant: the empty substring is contained in no string
ContainsNonEmpty(s, sub) ==
  /\ sub # <<>>
  /\ \E i \in 0..(Len(s) - Len(sub)) : SubSeq(s, i + 1, i + Len(sub)) = sub

\* strings.Contains: the empty substring is contained in every string
Contains(s, sub) ==
  \E i \in 0..(Len(s) - Len(sub)) : SubSeq(s, i + 1, i + Len(sub)) = sub

\* mutant: the keyword is compared as written, only the title is lowered
containsIgnoreKeywordAsWritten(title, keywords) ==
  LET titleLower == ToLower(title)
  IN  \E k \in 1..Len(keywords) : Contains(titleLower, keywords[k])

\* containsIgnoreKeyword(title, keywords)
containsIgnoreKeyword(title, keywords) ==
  LET titleLower == ToLower(title)
  IN  \E k \in 1..Len(keywords) : Contains(titleLower, ToLower(keywords[k]))

\* FilterPRs(prs, ignoreKeywords): the PRs kept, in input order
FilterPRs(prs, ignoreKeywords) ==
  SelectSeq(prs, LAMBDA pr : ~containsIgnoreKeyword(pr.Title, ignoreKeywords))

\* mutant: every participant must have approved, whatever the role
IsPRApprovedAnyRole(participants) ==
  ~\E i \in 1..Len(participants) : ~participants[i].Approved

\* IsPRApproved(participants)
IsPRApproved(participants) ==
  ~\E i \in 1..Len(participants) :
      participants[i].Role = "REVIEWER" /\ ~participants[i].Approved

\* mutant: every participant counts in the total, whatever the role
CountApprovalsAnyRole(participants) ==
  LET reviewers == {i \in 1..Len(participants) : participants[i].Role = "REVIEWER"}
  IN  [approved |-> Cardinality({i \in reviewers : participants[i].Approved}),
       total |-> Len(participants)]

\* CountApprovals(participants)
CountApprovals(participants) ==
  LET reviewers == {i \in 1..Len(participants) : participants[i].Role = "REVIEWER"}
  IN  [approved |-> Cardinality({i \in reviewers : participants[i].Approved}),
       total |-> Cardinality(reviewers)]

\* the loop of GetLastActivity over the comments, from the i-th on
RECURSIVE LastOver(_, _, _)
LastOver(comments, i, last) ==
  IF i > Len(comments) THEN last
  ELSE LET commentTime == UnixMilli(comments[i].UpdatedDate)
       IN  LastOver(comments, i + 1,
                    IF After(commentTime, last) THEN commentTime ELSE last)

\* GetLastActivity(pr, comments): <<>> is the empty string
GetLastActivity(pr, comments) ==
  IF pr.UpdatedDate = Epoch /\ pr.CreatedDate = Epoch THEN <<>>
  ELSE LET lastUpdated == UnixMilli(pr.UpdatedDate)
           lastCreated == UnixMilli(pr.CreatedDate)
           first == IF IsZero(lastUpdated) THEN lastCreated ELSE lastUpdated
           last == LastOver(comments, 1, first)
       IN  IF IsZero(last) THEN <<>> ELSE FormatRFC3339(last)

(***************************************************************************)
(* Go maps: functions whose domain is the set of keys present.             *)
(***************************************************************************)
EmptyMap == [k \in {} |-> <<>>]

\* m[k] of a Go map of slices: nil (the empty slice) when k is absent
MapGet(m, k) == IF k \in DOMAIN m THEN m[k] ELSE <<>>

\* m[k] = v
MapPut(m, k, v) == [x \in (DOMAIN m) \cup {k} |-> IF x = k THEN v ELSE m[x]]

(***************************************************************************)
(* The Bitbucket server seen by one cycle: srv maps a repository name to   *)
(* [ok, prs], the answer to ListOpenPRs, where each element of prs is      *)
(* [pr, participants, comments]: the pull request with the answers         *)
(* [ok, values] the server gives to GetParticipants and GetComments for it.*)
(***************************************************************************)
\* Client.ListOpenPRs(repo): [ok, values]
ListOpenPRs(srv, repo) ==
  [ok |-> srv[repo].ok,
   values |-> [i \in 1..Len(srv[repo].prs) |-> srv[repo].prs[i].pr]]

ServerEntry(srv, repo, prID) ==
  LET i == CHOOSE i \in 1..Len(srv[repo].prs) : srv[repo].prs[i].pr.ID = prID
  IN  srv[repo].prs[i]

\* Client.GetParticipants(repo, prID): [ok, values]
GetParticipants(srv, repo, prID) == ServerEntry(srv, repo, prID).participants

\* Client.GetComments(repo, prID): [ok, values]
GetComments(srv, repo, prID) == ServerEntry(srv, repo, prID).comments

(***************************************************************************)
(* One pass of the body of "for _, pr := range filtered" (main.go          *)
(* 128-163).  acc holds the three accumulators of the cycle and the log    *)
(* of the network calls made; clock is the reading of time.Now() inside    *)
(* time.Since.                                                             *)
(***************************************************************************)
EmptyAcc ==
  [allPRsToNotify |-> <<>>, repoPRsToNotify |-> EmptyMap,
   prParticipants |-> EmptyMap, calls |-> <<>>]

Call(op, repo, id) == [op |-> op, repo |-> repo, id |-> id]

\* daysWithoutActivity >= cfg.PRFilter.StaleAfterDays
IsStale(clock, lastTime, staleAfterDays) ==
  TruncDays(Since(clock, lastTime)) >= staleAfterDays

\* mutant: the approval check is missing
PRStepNoApprovalCheck(a, srv, repo, pr, clock, staleAfterDays) ==
  LET participants == GetParticipants(srv, repo, pr.ID)
      acc1 == [a EXCEPT !.calls = Append(@, Call("GetParticipants", repo, pr.ID))]
  IN  IF ~participants.ok THEN acc1
      ELSE
      LET acc2 == [acc1 EXCEPT !.prParticipants = MapPut(@, pr.ID, participants.values)]
          comments == GetComments(srv, repo, pr.ID)
          acc3 == [acc2 EXCEPT !.calls = Append(@, Call("GetComments", repo, pr.ID))]
      IN  IF ~comments.ok THEN acc3
          ELSE
          LET lastActivity == GetLastActivity(pr, comments.values)
              parsed == ParseRFC3339(lastActivity)
          IN  IF lastActivity = <<>> THEN acc3
              ELSE IF ~parsed.ok THEN acc3
              ELSE IF IsStale(clock, parsed.t, staleAfterDays)
              THEN [acc3 EXCEPT
                      !.allPRsToNotify = Append(@, pr),
                      !.repoPRsToNotify =
                         MapPut(@, repo, Append(MapGet(@, repo), pr))]
              ELSE acc3

\* mutant: a failure of GetComments is ignored, the PR is judged without them
PRStepIgnoresCommentsError(a, srv, repo, pr, clock, staleAfterDays) ==
  LET participants == GetParticipants(srv, repo, pr.ID)
      acc1 == [a EXCEPT !.calls = Append(@, Call("GetParticipants", repo, pr.ID))]
  IN  IF ~participants.ok THEN acc1
      ELSE
      LET acc2 == [acc1 EXCEPT !.prParticipants = MapPut(@, pr.ID, participants.values)]
      IN  IF IsPRApproved(participants.values) THEN acc2
          ELSE
          LET comments == GetComments(srv, repo, pr.ID)
              acc3 == [acc2 EXCEPT !.calls = Append(@, Call("GetComments", repo, pr.ID))]
              lastActivity == GetLastActivity(pr, comments.values)
              parsed == ParseRFC3339(lastActivity)
          IN  IF lastActivity = <<>> THEN acc3
              ELSE IF ~parsed.ok THEN acc3
              ELSE IF IsStale(clock, parsed.t, staleAfterDays)
              THEN [acc3 EXCEPT
                      !.allPRsToNotify = Append(@, pr),
                      !.repoPRsToNotify =
                         MapPut(@, repo, Append(MapGet(@, repo), pr))]
              ELSE acc3

PRStep(acc, srv, repo, pr, clock, staleAfterDays) ==
  LET participants == GetParticipants(srv, repo, pr.ID)
      acc1 == [acc EXCEPT !.calls = Append(@, Call("GetParticipants", repo, pr.ID))]
  IN  IF ~participants.ok THEN acc1
      ELSE
      LET acc2 == [acc1 EXCEPT !.prParticipants = MapPut(@, pr.ID, participants.values)]
      IN  IF IsPRApproved(participants.values) THEN acc2
          ELSE
          LET comments == GetComments(srv, repo, pr.ID)
              acc3 == [acc2 EXCEPT !.calls = Append(@, Call("GetComments", repo, pr.ID))]
          IN  IF ~comments.ok THEN acc3
              ELSE
              LET lastActivity == GetLastActivity(pr, comments.values)
                  parsed == ParseRFC3339(lastActivity)
              IN  IF lastActivity = <<>> THEN acc3
                  ELSE IF ~parsed.ok THEN acc3
                  ELSE IF IsStale(clock, parsed.t, staleAfterDays)
                  THEN [acc3 EXCEPT
                          !.allPRsToNotify = Append(@, pr),
                          !.repoPRsToNotify =
                             MapPut(@, repo, Append(MapGet(@, repo), pr))]
                  ELSE acc3

\* the loop over filtered, from the i-th PR on; at[<<repo, id>>] is the clock
\* reading at which that PR is evaluated
RECURSIVE PRLoop(_, _, _, _, _, _, _)
PRLoop(acc, srv, repo, filtered, i, at, staleAfterDays) ==
  IF i > Len(filtered) THEN acc
  ELSE PRLoop(PRStep(acc, srv, repo, filtered[i], at[<<repo, filtered[i].ID>>],
                     staleAfterDays),
              srv, repo, filtered, i + 1, at, staleAfterDays)

\* the loop over cfg.Bitbucket.Repositories (main.go 116-164), from the i-th on
RECURSIVE RepoLoop(_, _, _, _, _, _, _)
RepoLoop(acc, srv, repos, i, at, ignoreKeywords, staleAfterDays) ==
  IF i > Len(repos) THEN acc
  ELSE
  LET repo == repos[i]
      prs == ListOpenPRs(srv, repo)
      acc1 == [acc EXCEPT !.calls = Append(@, Call("ListOpenPRs", repo, 0))]
  IN  IF ~prs.ok
      THEN RepoLoop(acc1, srv, repos, i + 1, at, ignoreKeywords, staleAfterDays)
      ELSE RepoLoop(PRLoop(acc1, srv, repo, FilterPRs(prs.values, ignoreKeywords),
                           1, at, staleAfterDays),
                    srv, repos, i + 1, at, ignoreKeywords, staleAfterDays)

(***************************************************************************)
(* Inputs of the model: the configuration, the clock at start, the         *)
(* checkpoint file found at start and the pull requests a server can hold. *)
(***************************************************************************)
\* largest number of pull requests the server returns in one cycle
MaxPRs == 2
\* number of times the interval timer may fire
MaxIter == 1
\* number of one-hour steps the clock may take while a cycle runs
MaxTicks == 1

Clock0 == [d |-> 20000, ms |-> 0]

TitleWip == (<<"[", "W", "i", "p", "]", " ", "x">>)

TitleFix == (<<"f", "i", "X">>)

Configs ==
  {[Repositories |-> <<"r1", "r2">>,
    IgnoreKeywords |-> <<(<<"[", "W", "I", "P", "]">>)>>,
    StaleAfterDays |-> 5,
    IntervalHours |-> h,
    TeamsWebhookURL |-> url] : h \in {1, 6}, url \in {"", "https://hook"}}

Reviewer(approved) == [Role |-> "REVIEWER", Approved |-> approved]

Author == [Role |-> "AUTHOR", Approved |-> FALSE]

Response(ok, values) == [ok |-> ok, values |-> values]

PullRequest(id, title, created, updated) ==
  [ID |-> id, Title |-> title, CreatedDate |-> created, UpdatedDate |-> updated]

Comment(created, updated) == [CreatedDate |-> created, UpdatedDate |-> updated]

\* the kinds of the runs of the whole loop
LoopKinds == {"approved", "stale"}

KindNames ==
  {"wip", "partfail", "approved", "commfail", "stale", "edge", "commented",
   "nodates", "badyear"}

\* the server's record of the pull request of a kind, under the id given
Entry(kind, id) ==
  LET old == AddDays(Clock0, -10)
      older == AddDays(Clock0, -12)
      unapproved == Response(TRUE, <<Author, Reviewer(TRUE), Reviewer(FALSE)>>)
      none == Response(TRUE, <<>>)
      failed == Response(FALSE, <<>>)
      E(title, created, updated, participants, comments) ==
        [pr |-> PullRequest(id, title, created, updated),
         participants |-> participants, comments |-> comments]
  IN  CASE kind = "wip" -> E(TitleWip, older, old, unapproved, none)
        [] kind = "partfail" -> E(TitleFix, older, old, failed, none)
        [] kind = "approved" ->
             E(TitleFix, older, old, Response(TRUE, <<Author, Reviewer(TRUE)>>), none)
        [] kind = "commfail" -> E(TitleFix, older, old, unapproved, failed)
        [] kind = "stale" -> E(TitleFix, older, old, unapproved, none)
        [] kind = "edge" ->
             E(TitleFix, older, AddHours(AddDays(Clock0, -5), 1), unapproved, none)
        [] kind = "commented" ->
             E(TitleFix, older, old, unapproved,
               Response(TRUE, <<Comment(older, AddDays(Clock0, -11)),
                                Comment(older, AddDays(Clock0, -1))>>))
        [] kind = "nodates" -> E(TitleFix, Epoch, Epoch, unapproved, none)
        [] kind = "badyear" ->
             E(TitleFix, older, [d |-> MaxParseDay + 1, ms |-> 0], unapproved, none)

\* the lists of at most n pull requests, of the kinds K, that a repository
\* can hold: ids 1, 2, ...
PRLists(K, n) ==
  UNION {{[i \in 1..k |-> Entry(ks[i], i)] : ks \in [1..k -> K]} : k \in 0..n}

\* the checkpoint file: absent, present but not readable by the process,
\* present with bytes that are no JSON timestamp, or a valid timestamp
FileAbsent == [kind |-> "absent", t |-> ZeroTime]

FileUnreadable == [kind |-> "unreadable", t |-> ZeroTime]

FileCorrupt == [kind |-> "corrupt", t |-> ZeroTime]

FileValid(t) == [kind |-> "valid", t |-> t]

InitFiles ==
  {FileAbsent, FileUnreadable, FileCorrupt,
   FileValid(AddHours(Clock0, -6)), FileValid(AddHours(Clock0, -3))}

(***************************************************************************)
(* FileNotificationStateStore (pkg/models).                                *)
(***************************************************************************)
\* GetLastNotificationTime: [t, err].  Every failure of ReadFile gives the
\* zero time and no error; bytes that do not unmarshal give an error.
GetLastNotificationTime(f) ==
  IF f.kind \in {"absent", "unreadable"} THEN [t |-> ZeroTime, err |-> FALSE]
  ELSE IF f.kind = "corrupt" THEN [t |-> ZeroTime, err |-> TRUE]
  ELSE [t |-> f.t, err |-> FALSE]

\* json.Marshal(t) of SetLastNotificationTime: Time.MarshalJSON fails for a
\* year outside 0000..9999
MarshalOK(t) == t.d >= MinParseDay /\ t.d <= MaxParseDay

\* mutant: the timestamp is written with whole seconds
WrittenFileWholeSeconds(t) == FileValid(T(t.d, (t.ms \div SecMs) * SecMs))

\* SetLastNotificationTime(t) when WriteFile succeeds: the RFC 3339 text
\* with its fractional seconds, which Unmarshal reads back as the instant t
WrittenFile(t) == FileValid(t)

\* what a failed WriteFile can leave behind: the file as it was (it could not
\* be opened) or a truncated file (it was opened, then the write failed)
FailedWrite(f) == {f, FileCorrupt}

\* the notifiers built at the start of run (main.go 72-78)
Notifiers(c) ==
  <<"email">> \o (IF c.TeamsWebhookURL # "" THEN <<"teams">> ELSE <<>>)

\* mutant: the interval must be exceeded, not merely reached
ShouldNotifyStrict(last, clock, intervalHours) ==
  IsZero(last) \/ Less(HoursDuration(intervalHours), Since(clock, last))

\* shouldNotify (main.go 98)
ShouldNotify(last, clock, intervalHours) ==
  IsZero(last) \/ GEq(Since(clock, last), HoursDuration(intervalHours))

(***************************************************************************)
(* The state of run.                                                       *)
(***************************************************************************)
VARIABLES
  cfg,          \* the configuration, fixed at start
  kinds,        \* the kinds of pull request the server holds, fixed at start
  file,         \* the checkpoint file tmp/last_notification.txt
  now,          \* the wall clock
  cancelled,    \* ctx.Done() is closed
  pc,           \* where run is: "top", "read", "skipsleep", "repos", "prs",
                \* "dispatch", "sleep", "done"
  result,       \* "running", or what run returned: "nil" or "err"
  lastNotified, \* the local of that name
  ri,           \* index of the repository loop
  filtered,     \* the local of that name
  pi,           \* index of the loop over filtered
  acc,          \* allPRsToNotify, repoPRsToNotify, prParticipants, and the
                \* network calls made in this iteration
  ni,           \* index of the loop over notifiers
  server,       \* what the server answered in this iteration, by repository
  evalAt,       \* clock reading at which each PR was evaluated
  notifyLog,    \* the Notify calls of this iteration, with their results
  setResult,    \* SetLastNotificationTime in this iteration: "none", "ok", "err"
  fileAtTop,    \* the checkpoint file when this iteration started
  iter,         \* number of times the interval timer fired
  ticks,        \* number of clock steps taken
  call          \* a helper of internal/bitbucket called on its own: its
                \* name, its arguments and, once done, what it returned

vars ==
  <<call, cfg, kinds, file, now, cancelled, pc, result, lastNotified, ri, filtered, pi, acc,
    ni, server, evalAt, notifyLog, setResult, fileAtTop, iter, ticks>>

\* the variables of run
runVars ==
  <<cfg, kinds, file, now, cancelled, pc, result, lastNotified, ri, filtered, pi, acc,
    ni, server, evalAt, notifyLog, setResult, fileAtTop, iter, ticks>>

\* the locals of run before the first iteration
InitLocals ==
  /\ now = Clock0
  /\ cancelled = FALSE
  /\ pc = "top"
  /\ result = "running"
  /\ lastNotified = ZeroTime
  /\ ri = 0
  /\ filtered = <<>>
  /\ pi = 0
  /\ acc = EmptyAcc
  /\ ni = 0
  /\ server = EmptyMap
  /\ evalAt = EmptyMap
  /\ notifyLog = <<>>
  /\ setResult = "none"
  /\ fileAtTop = file
  /\ iter = 0
  /\ ticks = 0

\* no helper is called on its own
NoCall == [fn |-> "none"]

Init ==
  /\ cfg \in Configs
  /\ kinds = LoopKinds
  /\ file \in InitFiles
  /\ InitLocals
  /\ call = NoCall

\* the signal handler of main calls cancel()
Cancel ==
  /\ ~cancelled
  /\ pc # "done"
  /\ cancelled' = TRUE
  /\ UNCHANGED <<call, cfg, kinds, file, now, pc, result, lastNotified, ri, filtered, pi, acc,
                 ni, server, evalAt, notifyLog, setResult, fileAtTop, iter, ticks>>

\* time passes while a cycle fetches and dispatches
Tick ==
  /\ pc \in {"prs", "dispatch"}
  /\ ticks < MaxTicks
  /\ now' = AddHours(now, 1)
  /\ ticks' = ticks + 1
  /\ UNCHANGED <<call, cfg, kinds, file, cancelled, pc, result, lastNotified, ri, filtered, pi,
                 acc, ni, server, evalAt, notifyLog, setResult, fileAtTop, iter>>

\* the locals of one iteration, as the next iteration finds them
FreshIteration ==
  /\ lastNotified' = ZeroTime
  /\ ri' = 0
  /\ acc' = EmptyAcc
  /\ server' = EmptyMap
  /\ evalAt' = EmptyMap
  /\ notifyLog' = <<>>
  /\ setResult' = "none"
  /\ fileAtTop' = file
  /\ filtered' = <<>>
  /\ pi' = 0
  /\ ni' = 0

\* mutant: the cancelled loop returns ctx.Err()
TopCancelledReturnsErr ==
  /\ pc = "top"
  /\ cancelled
  /\ pc' = "done"
  /\ result' = "err"
  /\ UNCHANGED <<call, cfg, kinds, file, now, cancelled, lastNotified, ri, filtered, pi, acc, ni,
                 server, evalAt, notifyLog, setResult, fileAtTop, iter, ticks>>

\* main.go 88-90: the select at the top finds ctx.Done() closed
TopCancelled ==
  /\ pc = "top"
  /\ cancelled
  /\ pc' = "done"
  /\ result' = "nil"
  /\ UNCHANGED <<call, cfg, kinds, file, now, cancelled, lastNotified, ri, filtered, pi, acc, ni,
                 server, evalAt, notifyLog, setResult, fileAtTop, iter, ticks>>

\* mutant: the loop has no select at its top
TopDefaultIgnoresContext ==
  /\ pc = "top"
  /\ pc' = "read"
  /\ UNCHANGED <<call, cfg, kinds, file, now, cancelled, result, lastNotified, ri, filtered, pi,
                 acc, ni, server, evalAt, notifyLog, setResult, fileAtTop, iter, ticks>>

\* main.go 88-91: the select at the top finds ctx.Done() open and takes
\* its default branch
TopDefault ==
  /\ pc = "top"
  /\ ~cancelled
  /\ pc' = "read"
  /\ UNCHANGED <<call, cfg, kinds, file, now, cancelled, result, lastNotified, ri, filtered, pi,
                 acc, ni, server, evalAt, notifyLog, setResult, fileAtTop, iter, ticks>>

\* main.go 92-95: the checkpoint cannot be read
TopReadError ==
  /\ pc = "read"
  /\ GetLastNotificationTime(file).err
  /\ pc' = "done"
  /\ result' = "err"
  /\ lastNotified' = GetLastNotificationTime(file).t
  /\ UNCHANGED <<call, cfg, kinds, file, now, cancelled, ri, filtered, pi, acc, ni, server,
                 evalAt, notifyLog, setResult, fileAtTop, iter, ticks>>

\* main.go 92-110: the gate is closed
TopGateClosed ==
  /\ pc = "read"
  /\ ~GetLastNotificationTime(file).err
  /\ ~ShouldNotify(GetLastNotificationTime(file).t, now, cfg.IntervalHours)
  /\ lastNotified' = GetLastNotificationTime(file).t
  /\ pc' = "skipsleep"
  /\ UNCHANGED <<call, cfg, kinds, file, now, cancelled, result, ri, filtered, pi, acc, ni,
                 server, evalAt, notifyLog, setResult, fileAtTop, iter, ticks>>

\* main.go 92-114: the gate is open, the cycle starts
TopGateOpen ==
  /\ pc = "read"
  /\ ~GetLastNotificationTime(file).err
  /\ ShouldNotify(GetLastNotificationTime(file).t, now, cfg.IntervalHours)
  /\ lastNotified' = GetLastNotificationTime(file).t
  /\ pc' = "repos"
  /\ ri' = 1
  /\ UNCHANGED <<call, cfg, kinds, file, now, cancelled, result, filtered, pi, acc, ni, server,
                 evalAt, notifyLog, setResult, fileAtTop, iter, ticks>>

\* number of pull requests the server has returned so far in this iteration
Returned == LET D == DOMAIN server
            IN  IF D = {} THEN 0
                ELSE LET RECURSIVE Sum(_)
                         Sum(S) == IF S = {} THEN 0
                                   ELSE LET r == CHOOSE r \in S : TRUE
                                        IN  Len(server[r].prs) + Sum(S \ {r})
                     IN  Sum(D)

LogCall(a, op, repo, id) == [a EXCEPT !.calls = Append(@, Call(op, repo, id))]

\* mutant: a failing repository ends the repository loop (break)
ListOpenPRsErrorAborts ==
  /\ pc = "repos"
  /\ ri <= Len(cfg.Repositories)
  /\ LET repo == cfg.Repositories[ri]
     IN  /\ server' = MapPut(server, repo, [ok |-> FALSE, prs |-> <<>>])
         /\ acc' = LogCall(acc, "ListOpenPRs", repo, 0)
  /\ ri' = Len(cfg.Repositories) + 1
  /\ UNCHANGED <<call, cfg, kinds, file, now, cancelled, pc, result, lastNotified, filtered, pi,
                 ni, evalAt, notifyLog, setResult, fileAtTop, iter, ticks>>

\* main.go 118-122: ListOpenPRs fails, the repository is skipped
ListOpenPRsError ==
  /\ pc = "repos"
  /\ ri <= Len(cfg.Repositories)
  /\ LET repo == cfg.Repositories[ri]
     IN  /\ server' = MapPut(server, repo, [ok |-> FALSE, prs |-> <<>>])
         /\ acc' = LogCall(acc, "ListOpenPRs", repo, 0)
  /\ ri' = ri + 1
  /\ UNCHANGED <<call, cfg, kinds, file, now, cancelled, pc, result, lastNotified, filtered, pi,
                 ni, evalAt, notifyLog, setResult, fileAtTop, iter, ticks>>

\* mutant: the keyword filter is not applied before the per-PR loop
ListOpenPRsOKUnfiltered ==
  /\ pc = "repos"
  /\ ri <= Len(cfg.Repositories)
  /\ \E prs \in PRLists(kinds, MaxPRs - Returned) :
       LET repo == cfg.Repositories[ri]
           srv == MapPut(server, repo, [ok |-> TRUE, prs |-> prs])
       IN  /\ server' = srv
           /\ acc' = LogCall(acc, "ListOpenPRs", repo, 0)
           /\ filtered' = ListOpenPRs(srv, repo).values
  /\ pi' = 1
  /\ pc' = "prs"
  /\ UNCHANGED <<call, cfg, kinds, file, now, cancelled, result, lastNotified, ri, ni, evalAt,
                 notifyLog, setResult, fileAtTop, iter, ticks>>

\* main.go 118-126: ListOpenPRs answers, the keyword filter is applied
ListOpenPRsOK ==
  /\ pc = "repos"
  /\ ri <= Len(cfg.Repositories)
  /\ \E prs \in PRLists(kinds, MaxPRs - Returned) :
       LET repo == cfg.Repositories[ri]
           srv == MapPut(server, repo, [ok |-> TRUE, prs |-> prs])
       IN  /\ server' = srv
           /\ acc' = LogCall(acc, "ListOpenPRs", repo, 0)
           /\ filtered' = FilterPRs(ListOpenPRs(srv, repo).values, cfg.IgnoreKeywords)
  /\ pi' = 1
  /\ pc' = "prs"
  /\ UNCHANGED <<call, cfg, kinds, file, now, cancelled, result, lastNotified, ri, ni, evalAt,
                 notifyLog, setResult, fileAtTop, iter, ticks>>

\* mutant: the participants are kept only for the PRs found stale
ProcessPRKeepsStaleOnly ==
  /\ pc = "prs"
  /\ pi <= Len(filtered)
  /\ LET repo == cfg.Repositories[ri]
         pr == filtered[pi]
         a == PRStep(acc, server, repo, pr, now, cfg.StaleAfterDays)
     IN  /\ acc' = IF a.allPRsToNotify # acc.allPRsToNotify THEN a
                   ELSE [a EXCEPT !.prParticipants = acc.prParticipants]
         /\ evalAt' = MapPut(evalAt, <<repo, pr.ID>>, now)
  /\ pi' = pi + 1
  /\ UNCHANGED <<call, cfg, kinds, file, now, cancelled, pc, result, lastNotified, ri, filtered,
                 ni, server, notifyLog, setResult, fileAtTop, iter, ticks>>

\* mutant: the body of the loop runs twice on each pull request
ProcessPRTwice ==
  /\ pc = "prs"
  /\ pi <= Len(filtered)
  /\ LET repo == cfg.Repositories[ri]
         pr == filtered[pi]
     IN  /\ acc' = PRStep(PRStep(acc, server, repo, pr, now, cfg.StaleAfterDays),
                          server, repo, pr, now, cfg.StaleAfterDays)
         /\ evalAt' = MapPut(evalAt, <<repo, pr.ID>>, now)
  /\ pi' = pi + 1
  /\ UNCHANGED <<call, cfg, kinds, file, now, cancelled, pc, result, lastNotified, ri, filtered,
                 ni, server, notifyLog, setResult, fileAtTop, iter, ticks>>

\* main.go 128-163: one pull request of filtered
ProcessPR ==
  /\ pc = "prs"
  /\ pi <= Len(filtered)
  /\ LET repo == cfg.Repositories[ri]
         pr == filtered[pi]
     IN  /\ acc' = PRStep(acc, server, repo, pr, now, cfg.StaleAfterDays)
         /\ evalAt' = MapPut(evalAt, <<repo, pr.ID>>, now)
  /\ pi' = pi + 1
  /\ UNCHANGED <<call, cfg, kinds, file, now, cancelled, pc, result, lastNotified, ri, filtered,
                 ni, server, notifyLog, setResult, fileAtTop, iter, ticks>>

\* mutant: the repository loop looks at ctx.Done() and returns
EndRepoChecksContext ==
  /\ pc = "prs"
  /\ pi > Len(filtered)
  /\ IF cancelled
     THEN pc' = "done" /\ result' = "nil" /\ ri' = ri
     ELSE pc' = "repos" /\ result' = result /\ ri' = ri + 1
  /\ UNCHANGED <<call, cfg, kinds, file, now, cancelled, lastNotified, filtered, pi, acc,
                 ni, server, evalAt, notifyLog, setResult, fileAtTop, iter, ticks>>

\* main.go 128, 116: filtered is exhausted, on to the next repository
EndRepo ==
  /\ pc = "prs"
  /\ pi > Len(filtered)
  /\ ri' = ri + 1
  /\ pc' = "repos"
  /\ UNCHANGED <<call, cfg, kinds, file, now, cancelled, result, lastNotified, filtered, pi, acc,
                 ni, server, evalAt, notifyLog, setResult, fileAtTop, iter, ticks>>

\* mutant: every completed cycle resets the timer, also an empty one
EndCycleEmptySetsCheckpoint ==
  /\ pc = "repos"
  /\ ri > Len(cfg.Repositories)
  /\ Len(acc.allPRsToNotify) = 0
  /\ file' = WrittenFile(now)
  /\ pc' = "sleep"
  /\ UNCHANGED <<call, cfg, kinds, now, cancelled, result, lastNotified, ri, filtered, pi,
                 acc, ni, server, evalAt, notifyLog, setResult, fileAtTop, iter,
                 ticks>>

\* mutant: an empty cycle is followed by the next iteration at once
EndCycleEmptyNoWait ==
  /\ pc = "repos"
  /\ ri > Len(cfg.Repositories)
  /\ Len(acc.allPRsToNotify) = 0
  /\ iter < MaxIter
  /\ iter' = iter + 1
  /\ pc' = "top"
  /\ FreshIteration
  /\ UNCHANGED <<call, cfg, kinds, file, now, cancelled, result, ticks>>

\* main.go 166, 178-182: nothing to notify
EndCycleEmpty ==
  /\ pc = "repos"
  /\ ri > Len(cfg.Repositories)
  /\ Len(acc.allPRsToNotify) = 0
  /\ pc' = "sleep"
  /\ UNCHANGED <<call, cfg, kinds, file, now, cancelled, result, lastNotified, ri, filtered, pi,
                 acc, ni, server, evalAt, notifyLog, setResult, fileAtTop, iter,
                 ticks>>

\* main.go 166-168: the batch is not empty, the dispatch starts
EndCycleDispatch ==
  /\ pc = "repos"
  /\ ri > Len(cfg.Repositories)
  /\ Len(acc.allPRsToNotify) > 0
  /\ pc' = "dispatch"
  /\ ni' = 1
  /\ UNCHANGED <<call, cfg, kinds, file, now, cancelled, result, lastNotified, ri, filtered, pi,
                 acc, server, evalAt, notifyLog, setResult, fileAtTop, iter, ticks>>

\* mutant: a failing channel ends the dispatch (break)
NotifyStopsOnError ==
  /\ pc = "dispatch"
  /\ ni <= Len(Notifiers(cfg))
  /\ \E res \in {"ok", "err"} :
       /\ notifyLog' = Append(notifyLog,
                              [channel |-> Notifiers(cfg)[ni],
                               allPRs |-> acc.allPRsToNotify,
                               repoPRs |-> acc.repoPRsToNotify,
                               prParticipants |-> acc.prParticipants,
                               staleAfterDays |-> cfg.StaleAfterDays,
                               result |-> res])
       /\ ni' = IF res = "err" THEN Len(Notifiers(cfg)) + 1 ELSE ni + 1
  /\ UNCHANGED <<call, cfg, kinds, file, now, cancelled, pc, result, lastNotified, ri, filtered,
                 pi, acc, server, evalAt, setResult, fileAtTop, iter, ticks>>

\* main.go 168-173: Notify on the next channel; an error is logged
Notify ==
  /\ pc = "dispatch"
  /\ ni <= Len(Notifiers(cfg))
  /\ \E res \in {"ok", "err"} :
       notifyLog' = Append(notifyLog,
                           [channel |-> Notifiers(cfg)[ni],
                            allPRs |-> acc.allPRsToNotify,
                            repoPRs |-> acc.repoPRsToNotify,
                            prParticipants |-> acc.prParticipants,
                            staleAfterDays |-> cfg.StaleAfterDays,
                            result |-> res])
  /\ ni' = ni + 1
  /\ UNCHANGED <<call, cfg, kinds, file, now, cancelled, pc, result, lastNotified, ri, filtered,
                 pi, acc, server, evalAt, setResult, fileAtTop, iter, ticks>>

\* mutant: the checkpoint is written only when no channel failed
SetLastNotificationTimeOnlyOnDelivery ==
  /\ pc = "dispatch"
  /\ ni > Len(Notifiers(cfg))
  /\ IF \E i \in 1..Len(notifyLog) : notifyLog[i].result = "err"
     THEN file' = file /\ setResult' = "none"
     ELSE file' = WrittenFile(now) /\ setResult' = "ok"
  /\ pc' = "sleep"
  /\ UNCHANGED <<call, cfg, kinds, now, cancelled, result, lastNotified, ri, filtered, pi, acc,
                 ni, server, evalAt, notifyLog, fileAtTop, iter, ticks>>

\* mutant: the checkpoint is written before the dispatch is over
SetLastNotificationTimeEarly ==
  /\ pc = "dispatch"
  /\ file' = WrittenFile(now)
  /\ setResult' = "ok"
  /\ pc' = "sleep"
  /\ UNCHANGED <<call, cfg, kinds, now, cancelled, result, lastNotified, ri, filtered, pi, acc,
                 ni, server, evalAt, notifyLog, fileAtTop, iter, ticks>>

\* main.go 174: SetLastNotificationTime(time.Now()) succeeds
SetLastNotificationTimeOK ==
  /\ pc = "dispatch"
  /\ ni > Len(Notifiers(cfg))
  /\ file' = WrittenFile(now)
  /\ setResult' = "ok"
  /\ pc' = "sleep"
  /\ UNCHANGED <<call, cfg, kinds, now, cancelled, result, lastNotified, ri, filtered, pi, acc,
                 ni, server, evalAt, notifyLog, fileAtTop, iter, ticks>>

\* mutant: a failed write of the checkpoint makes run return the error
SetLastNotificationTimeErrorReturns ==
  /\ pc = "dispatch"
  /\ ni > Len(Notifiers(cfg))
  /\ file' \in FailedWrite(file)
  /\ setResult' = "err"
  /\ pc' = "done"
  /\ result' = "err"
  /\ UNCHANGED <<call, cfg, kinds, now, cancelled, lastNotified, ri, filtered, pi, acc,
                 ni, server, evalAt, notifyLog, fileAtTop, iter, ticks>>

\* main.go 174-177: SetLastNotificationTime fails; the error is logged
SetLastNotificationTimeError ==
  /\ pc = "dispatch"
  /\ ni > Len(Notifiers(cfg))
  /\ file' \in FailedWrite(file)
  /\ setResult' = "err"
  /\ pc' = "sleep"
  /\ UNCHANGED <<call, cfg, kinds, now, cancelled, result, lastNotified, ri, filtered, pi, acc,
                 ni, server, evalAt, notifyLog, fileAtTop, iter, ticks>>

\* main.go 184-185 and 104-105: the wait ends because ctx.Done() is closed
SleepCancelled ==
  /\ pc \in {"sleep", "skipsleep"}
  /\ cancelled
  /\ pc' = "done"
  /\ result' = "nil"
  /\ UNCHANGED <<call, cfg, kinds, file, now, cancelled, lastNotified, ri, filtered, pi, acc, ni,
                 server, evalAt, notifyLog, setResult, fileAtTop, iter, ticks>>

\* main.go 186-188 and 106-109: the timer fires after checkFreq; when
\* ctx.Done() is closed too, select may still take this branch
SleepTimer ==
  /\ pc \in {"sleep", "skipsleep"}
  /\ iter < MaxIter
  /\ now' = AddHours(now, cfg.IntervalHours)
  /\ iter' = iter + 1
  /\ pc' = "top"
  /\ FreshIteration
  /\ UNCHANGED <<call, cfg, kinds, file, cancelled, result, ticks>>

Next ==
  \/ Cancel
  \/ Tick
  \/ TopCancelled
  \/ TopDefault
  \/ TopReadError
  \/ TopGateClosed
  \/ TopGateOpen
  \/ ListOpenPRsError
  \/ ListOpenPRsOK
  \/ ProcessPR
  \/ EndRepo
  \/ EndCycleEmpty
  \/ EndCycleDispatch
  \/ Notify
  \/ SetLastNotificationTimeOK
  \/ SetLastNotificationTimeError
  \/ SleepCancelled
  \/ SleepTimer

Spec == Init /\ [][Next]_vars

\* the steps of run itself: every call it makes returns, every select it
\* waits in is left
RunStep ==
  \/ TopCancelled
  \/ TopDefault
  \/ TopReadError
  \/ TopGateClosed
  \/ TopGateOpen
  \/ ListOpenPRsError
  \/ ListOpenPRsOK
  \/ ProcessPR
  \/ EndRepo
  \/ EndCycleEmpty
  \/ EndCycleDispatch
  \/ Notify
  \/ SetLastNotificationTimeOK
  \/ SetLastNotificationTimeError
  \/ SleepCancelled
  \/ SleepTimer

\* one configuration, on an absent, a corrupt and a recent checkpoint
InitLive ==
  /\ cfg \in {c \in Configs : c.IntervalHours = 6 /\ c.TeamsWebhookURL # ""}
  /\ kinds = LoopKinds
  /\ file \in {FileAbsent, FileCorrupt, FileValid(AddHours(Clock0, -3))}
  /\ InitLocals
  /\ call = NoCall

SpecLive == InitLive /\ [][Next]_vars /\ WF_vars(RunStep)

(***************************************************************************)
(* One cycle on an absent checkpoint, over every kind of pull request.     *)
(***************************************************************************)
InitCycle ==
  /\ cfg \in {c \in Configs : c.IntervalHours = 6 /\ c.TeamsWebhookURL = ""}
  /\ kinds = KindNames
  /\ file = FileAbsent
  /\ InitLocals
  /\ call = NoCall

NextCycle ==
  \/ Tick
  \/ TopDefault
  \/ TopGateOpen
  \/ ListOpenPRsError
  \/ ListOpenPRsOK
  \/ ProcessPR
  \/ EndRepo
  \/ EndCycleEmpty
  \/ EndCycleDispatch

SpecCycle == InitCycle /\ [][NextCycle]_vars

(***************************************************************************)
(* The helpers of internal/bitbucket called on their own, on every input   *)
(* of a bounded set.                                                       *)
(***************************************************************************)
\* largest number of comments of a pull request
MaxComments == 2

\* int64 epoch milliseconds: 0, the instant of the zero time.Time, two
\* whole days, and instants a millisecond and a second and a half later
Stamps ==
  {Epoch, ZeroTime, AddDays(Clock0, -10), AddDays(Clock0, -5),
   AddMs(AddDays(Clock0, -5), 1), AddMs(AddDays(Clock0, -5), 1500)}

CommentLists ==
  LET C == {Comment(c, u) : c \in {Epoch, AddDays(Clock0, -1)}, u \in Stamps}
  IN  UNION {[1..k -> C] : k \in 0..MaxComments}

ActivityCalls ==
  {[fn |-> "GetLastActivity",
    pr |-> PullRequest(1, TitleFix, c, u),
    comments |-> cs,
    out |-> <<>>,
    done |-> FALSE,
    added |-> <<>>,
    out2 |-> <<>>] : c \in Stamps, u \in Stamps, cs \in CommentLists}

\* largest number of ignore keywords, and of participants of a pull request
MaxKeywords == 2
MaxParticipants == 3

Titles ==
  {<<>>, <<"w", "i", "p">>, <<"W", "I", "P", "x">>, <<"x", "p">>, TitleWip, TitleFix}

Keywords == {<<>>, <<"W", "I", "P">>, <<"w", "i", "p">>, <<"x">>, <<"p", "X">>}

KeywordLists == UNION {[1..k -> Keywords] : k \in 0..MaxKeywords}

ContainsCalls ==
  {[fn |-> "containsIgnoreKeyword", title |-> t, keywords |-> K,
    out |-> FALSE, done |-> FALSE] : t \in Titles, K \in KeywordLists}

\* lists of pull requests with ids 1, 2, ...
TitledPRs ==
  UNION {{[i \in 1..k |-> PullRequest(i, ts[i], Epoch, Epoch)] :
            ts \in [1..k -> {<<>>, TitleWip, TitleFix}]} : k \in 0..MaxPRs}

FilterCalls ==
  {[fn |-> "FilterPRs", prs |-> prs, keywords |-> K,
    out |-> <<>>, done |-> FALSE] : prs \in TitledPRs, K \in KeywordLists}

Participants ==
  {Author, [Role |-> "AUTHOR", Approved |-> TRUE], Reviewer(TRUE), Reviewer(FALSE),
   [Role |-> "PARTICIPANT", Approved |-> FALSE]}

ApprovalCalls ==
  {[fn |-> "IsPRApproved", participants |-> P, out |-> FALSE, done |-> FALSE] :
     P \in UNION {[1..k -> Participants] : k \in 0..MaxParticipants}}

CountCalls ==
  {[fn |-> "CountApprovals", participants |-> P,
    out |-> [approved |-> 0, total |-> 0], done |-> FALSE] :
     P \in UNION {[1..k -> Participants] : k \in 0..MaxParticipants}}

\* client.go CountApprovals(participants)
CallCountApprovals ==
  /\ call.fn = "CountApprovals"
  /\ ~call.done
  /\ call' = [call EXCEPT !.out = CountApprovals(call.participants), !.done = TRUE]
  /\ UNCHANGED runVars

\* client.go containsIgnoreKeyword(title, keywords)
CallContainsIgnoreKeyword ==
  /\ call.fn = "containsIgnoreKeyword"
  /\ ~call.done
  /\ call' = [call EXCEPT !.out = containsIgnoreKeyword(call.title, call.keywords),
                          !.done = TRUE]
  /\ UNCHANGED runVars

\* client.go FilterPRs(prs, ignoreKeywords)
CallFilterPRs ==
  /\ call.fn = "FilterPRs"
  /\ ~call.done
  /\ call' = [call EXCEPT !.out = FilterPRs(call.prs, call.keywords),
                          !.done = TRUE]
  /\ UNCHANGED runVars

\* client.go IsPRApproved(participants)
CallIsPRApproved ==
  /\ call.fn = "IsPRApproved"
  /\ ~call.done
  /\ call' = [call EXCEPT !.out = IsPRApproved(call.participants), !.done = TRUE]
  /\ UNCHANGED runVars

\* thresholds of cfg.PRFilter.StaleAfterDays
Thresholds == {0, 1, 5}

\* how long before the clock reading the last activity is, in
\* milliseconds, for the threshold n; negative: after the clock reading
AgoMs(n) ==
  {n * DayMs, n * DayMs - 1, n * DayMs - SecMs, n * DayMs + SecMs,
   0, 0 - HourMs, 0 - DayMs, 0 - DayMs - HourMs}

\* one pull request, not approved and without comments, updated ago
\* milliseconds before the clock reading, evaluated with the threshold n
StalenessCalls ==
  {[fn |-> "PRStep",
    pr |-> PullRequest(1, TitleFix, AddDays(Clock0, -30), AddMs(clock, 0 - ago)),
    clock |-> clock,
    n |-> n,
    ago |-> ago,
    out |-> [lastTime |-> ZeroTime, days |-> 0, stale |-> FALSE],
    done |-> FALSE] :
     clock \in {Clock0, AddMs(Clock0, 250)}, n \in Thresholds,
     ago \in UNION {AgoMs(m) : m \in Thresholds}}

\* main.go 128-163 on that pull request: out is the lastTime and the
\* daysWithoutActivity of main.go 152-158 and whether the PR was appended
CallPRStep ==
  /\ call.fn = "PRStep"
  /\ ~call.done
  /\ LET entry == [pr |-> call.pr,
                   participants |-> Response(TRUE, <<Author, Reviewer(FALSE)>>),
                   comments |-> Response(TRUE, <<>>)]
         srv == [r \in {"r1"} |-> [ok |-> TRUE, prs |-> <<entry>>]]
         a == PRStep(EmptyAcc, srv, "r1", call.pr, call.clock, call.n)
         lastTime == ParseRFC3339(GetLastActivity(call.pr, <<>>)).t
     IN  call' = [call EXCEPT
                    !.out = [lastTime |-> lastTime,
                             days |-> TruncDays(Since(call.clock, lastTime)),
                             stale |-> a.allPRsToNotify = <<call.pr>>],
                    !.done = TRUE]
  /\ UNCHANGED runVars

\* client.go GetLastActivity(pr, comments)
CallGetLastActivity ==
  /\ call.fn = "GetLastActivity"
  /\ ~call.done
  /\ call' = [call EXCEPT !.out = GetLastActivity(call.pr, call.comments),
                          !.done = TRUE]
  /\ UNCHANGED runVars

\* client.go GetLastActivity(pr, comments) once more, with one more comment
CallGetLastActivityAgain ==
  /\ call.fn = "GetLastActivity"
  /\ call.done
  /\ call.added = <<>>
  /\ \E u \in Stamps :
       LET c == Comment(Epoch, u)
       IN  call' = [call EXCEPT !.added = <<c>>,
                                !.out2 = GetLastActivity(call.pr,
                                                         Append(call.comments, c))]
  /\ UNCHANGED runVars

InitPure ==
  /\ cfg \in {c \in Configs : c.IntervalHours = 6 /\ c.TeamsWebhookURL = ""}
  /\ kinds = {}
  /\ file = FileAbsent
  /\ InitLocals
  /\ \/ call \in ActivityCalls
     \/ call \in StalenessCalls
     \/ call \in ContainsCalls
     \/ call \in FilterCalls
     \/ call \in ApprovalCalls
     \/ call \in CountCalls

NextPure ==
  \/ CallGetLastActivity
  \/ CallGetLastActivityAgain
  \/ CallPRStep
  \/ CallContainsIgnoreKeyword
  \/ CallFilterPRs
  \/ CallIsPRApproved
  \/ CallCountApprovals

SpecPure == InitPure /\ [][NextPure]_vars

(***************************************************************************)
(* The checkpoint store used on its own: any sequence of Set and Get on a  *)
(* store whose file does not exist at the start.                           *)
(***************************************************************************)
MaxStoreOps == 4

\* the timestamps handed to SetLastNotificationTime; the last one is in
\* the year 10000
StoreTimes ==
  {ZeroTime, Epoch, Clock0, AddMs(Clock0, 1500), T(MaxParseDay + 1, 0)}

NoSet == [kind |-> "none", t |-> ZeroTime]

NoGet == [kind |-> "none", t |-> ZeroTime, err |-> FALSE]

InitStore ==
  /\ cfg \in {c \in Configs : c.IntervalHours = 6 /\ c.TeamsWebhookURL = ""}
  /\ kinds = {}
  /\ file = FileAbsent
  /\ InitLocals
  /\ call = [fn |-> "store", ops |-> 0, last |-> NoSet, got |-> NoGet]

\* models.go 407-419: Marshal and WriteFile succeed, nil is returned
StoreSetOK ==
  /\ call.fn = "store"
  /\ call.ops < MaxStoreOps
  /\ \E t \in StoreTimes :
       /\ MarshalOK(t)
       /\ file' = WrittenFile(t)
       /\ call' = [call EXCEPT !.ops = @ + 1, !.last = [kind |-> "ok", t |-> t],
                                !.got = NoGet]
  /\ UNCHANGED <<cfg, kinds, now, cancelled, pc, result, lastNotified, ri, filtered, pi, acc,
                 ni, server, evalAt, notifyLog, setResult, fileAtTop, iter, ticks>>

\* models.go 408-411: Marshal fails, the file is not touched
StoreSetMarshalError ==
  /\ call.fn = "store"
  /\ call.ops < MaxStoreOps
  /\ \E t \in StoreTimes :
       /\ ~MarshalOK(t)
       /\ call' = [call EXCEPT !.ops = @ + 1, !.last = [kind |-> "failed", t |-> t],
                                !.got = NoGet]
  /\ UNCHANGED <<cfg, kinds, file, now, cancelled, pc, result, lastNotified, ri, filtered, pi,
                 acc, ni, server, evalAt, notifyLog, setResult, fileAtTop, iter, ticks>>

\* models.go 413-416: WriteFile fails
StoreSetWriteError ==
  /\ call.fn = "store"
  /\ call.ops < MaxStoreOps
  /\ \E t \in StoreTimes :
       /\ MarshalOK(t)
       /\ file' \in FailedWrite(file)
       /\ call' = [call EXCEPT !.ops = @ + 1, !.last = [kind |-> "failed", t |-> t],
                                !.got = NoGet]
  /\ UNCHANGED <<cfg, kinds, now, cancelled, pc, result, lastNotified, ri, filtered, pi, acc,
                 ni, server, evalAt, notifyLog, setResult, fileAtTop, iter, ticks>>

\* models.go 391-404: GetLastNotificationTime
StoreGet ==
  /\ call.fn = "store"
  /\ call.ops < MaxStoreOps
  /\ LET r == GetLastNotificationTime(file)
     IN  call' = [call EXCEPT !.ops = @ + 1,
                              !.got = [kind |-> "got", t |-> r.t, err |-> r.err]]
  /\ UNCHANGED runVars

NextStore ==
  \/ StoreSetOK
  \/ StoreSetMarshalError
  \/ StoreSetWriteError
  \/ StoreGet

SpecStore == InitStore /\ [][NextStore]_vars

(***************************************************************************)
(* The timing of run over several iterations and process restarts.  The    *)
(* cycle is reduced to its outcome (an empty batch or a dispatch); call    *)
(* holds the position of run and the times of the two latest dispatches.   *)
(***************************************************************************)
MaxRunIters == 2

MaxRestarts == 1

MaxElapse == 1

NoDispatch == [set |-> FALSE, t |-> ZeroTime, run |-> 0, wrote |-> "none"]

\* the variables of the full model that the timing model does not use
timingFrame ==
  <<cfg, kinds, cancelled, pc, result, lastNotified, ri, filtered, pi, acc, ni, server,
    evalAt, notifyLog, setResult, fileAtTop, iter, ticks>>

InitTiming ==
  /\ cfg \in {c \in Configs : c.TeamsWebhookURL = ""}
  /\ kinds = {}
  /\ file \in InitFiles
  /\ InitLocals
  /\ call = [fn |-> "run", pc |-> "top", run |-> 0, iters |-> 0, elapsed |-> 0,
             last |-> NoDispatch, prev |-> NoDispatch]

\* main.go 92-95: the checkpoint cannot be parsed, run returns the error
RunReadError ==
  /\ call.fn = "run" /\ call.pc = "top"
  /\ GetLastNotificationTime(file).err
  /\ call' = [call EXCEPT !.pc = "done"]
  /\ UNCHANGED <<file, now>>
  /\ UNCHANGED timingFrame

\* main.go 97-110: the gate is closed
RunGateClosed ==
  /\ call.fn = "run" /\ call.pc = "top"
  /\ ~GetLastNotificationTime(file).err
  /\ ~ShouldNotify(GetLastNotificationTime(file).t, now, cfg.IntervalHours)
  /\ call' = [call EXCEPT !.pc = "wait"]
  /\ UNCHANGED <<file, now>>
  /\ UNCHANGED timingFrame

\* main.go 97-114: the gate is open, the cycle starts
RunGateOpen ==
  /\ call.fn = "run" /\ call.pc = "top"
  /\ ~GetLastNotificationTime(file).err
  /\ ShouldNotify(GetLastNotificationTime(file).t, now, cfg.IntervalHours)
  /\ call' = [call EXCEPT !.pc = "cycle"]
  /\ UNCHANGED <<file, now>>
  /\ UNCHANGED timingFrame

\* time passes while the cycle fetches, or between the dispatch and the
\* checkpoint write
RunElapse ==
  /\ call.fn = "run" /\ call.pc \in {"cycle", "dispatched"}
  /\ call.elapsed < MaxElapse
  /\ now' = AddHours(now, 1)
  /\ call' = [call EXCEPT !.elapsed = @ + 1]
  /\ UNCHANGED file
  /\ UNCHANGED timingFrame

\* main.go 166, 178-180: the batch of the cycle is empty
RunCycleEmpty ==
  /\ call.fn = "run" /\ call.pc = "cycle"
  /\ call' = [call EXCEPT !.pc = "wait"]
  /\ UNCHANGED <<file, now>>
  /\ UNCHANGED timingFrame

\* main.go 166-173: the batch is not empty, Notify is called on the channels
RunDispatch ==
  /\ call.fn = "run" /\ call.pc = "cycle"
  /\ call' = [call EXCEPT !.pc = "dispatched",
                          !.prev = call.last,
                          !.last = [set |-> TRUE, t |-> now, run |-> call.run,
                                    wrote |-> "none"]]
  /\ UNCHANGED <<file, now>>
  /\ UNCHANGED timingFrame

\* main.go 174: SetLastNotificationTime(time.Now()) succeeds
RunWriteOK ==
  /\ call.fn = "run" /\ call.pc = "dispatched"
  /\ file' = WrittenFile(now)
  /\ call' = [call EXCEPT !.pc = "wait", !.last.wrote = "ok"]
  /\ UNCHANGED now
  /\ UNCHANGED timingFrame

\* main.go 174-177: SetLastNotificationTime fails, the error is logged
RunWriteError ==
  /\ call.fn = "run" /\ call.pc = "dispatched"
  /\ file' \in FailedWrite(file)
  /\ call' = [call EXCEPT !.pc = "wait", !.last.wrote = "err"]
  /\ UNCHANGED now
  /\ UNCHANGED timingFrame

\* mutant: the wait ends at once
RunWaitNoDelay ==
  /\ call.fn = "run" /\ call.pc = "wait"
  /\ call.iters < MaxRunIters
  /\ call' = [call EXCEPT !.pc = "top", !.iters = @ + 1]
  /\ UNCHANGED <<file, now>>
  /\ UNCHANGED timingFrame

\* main.go 103-109 and 183-188: time.After(checkFreq) ends the wait, checkFreq
\* or more after it began
RunWait ==
  /\ call.fn = "run" /\ call.pc = "wait"
  /\ call.iters < MaxRunIters
  /\ \E late \in {0, 1} : now' = AddHours(now, cfg.IntervalHours + late)
  /\ call' = [call EXCEPT !.pc = "top", !.iters = @ + 1]
  /\ UNCHANGED file
  /\ UNCHANGED timingFrame

\* the process ends at any position (run returned, or the process was
\* killed) and is started again, at once or later; the checkpoint file stays
RunRestart ==
  /\ call.fn = "run"
  /\ call.run < MaxRestarts
  /\ \E h \in {0, 1, cfg.IntervalHours} : now' = AddHours(now, h)
  /\ call' = [call EXCEPT !.pc = "top", !.run = @ + 1]
  /\ UNCHANGED file
  /\ UNCHANGED timingFrame

NextTiming ==
  \/ RunReadError
  \/ RunGateClosed
  \/ RunGateOpen
  \/ RunElapse
  \/ RunCycleEmpty
  \/ RunDispatch
  \/ RunWriteOK
  \/ RunWriteError
  \/ RunWait
  \/ RunRestart

SpecTiming == InitTiming /\ [][NextTiming]_vars

(***************************************************************************)
(* The page-following loops of Client.ListOpenPRs and Client.GetComments.  *)
(* Each HTTP request returns; what it returns is the server's choice.      *)
(***************************************************************************)
MaxPageItems == 3

\* the URL of the first request, an absolute and a relative link to a
\* further page, and the link of the last page
FirstURL == "https://host/first"

AbsoluteNext == "https://host/next"

RelativeNext == "/next"

NoNext == ""

\* client.go 737-750: a "next" that begins with "/" is appended to the base
\* URL, any other is taken as it is
ListOpenPRsNextURL(next) == IF next = RelativeNext THEN AbsoluteNext ELSE next

\* client.go 843: the "next" of the response is taken as it is
GetCommentsNextURL(next) == next

NextURL(client, next) ==
  IF client = "ListOpenPRs" THEN ListOpenPRsNextURL(next) ELSE GetCommentsNextURL(next)

\* the values of one page: PRListResponse.Values, CommentsResponse.Values
PageValues == {<<>>, <<1>>, <<2>>}

\* the "next" of one page: none, a relative or an absolute link to a further
\* page, or a link back to the first page
PageLinks == {NoNext, RelativeNext, AbsoluteNext, FirstURL}

InitPages ==
  /\ cfg \in {c \in Configs : c.IntervalHours = 6 /\ c.TeamsWebhookURL = ""}
  /\ kinds = {}
  /\ file = FileAbsent
  /\ InitLocals
  /\ \E client \in {"ListOpenPRs", "GetComments"} :
       call = [fn |-> "pages", client |-> client, url |-> FirstURL, values |-> <<>>,
               status |-> "running"]

\* client.go 712-734 and 818-841: the request fails (transport error, a
\* status other than 200, a body that is no JSON); the call returns the error
PageError ==
  /\ call.fn = "pages"
  /\ call.status = "running"
  /\ call.url # NoNext
  /\ call' = [call EXCEPT !.status = "err", !.values = <<>>]
  /\ UNCHANGED runVars

\* client.go 735-750 and 842-843: a page is received and appended; the loop
\* goes on with the link the page names and ends when it names none.  A
\* request to a relative URL cannot be sent, so no page answers it.
PageOK ==
  /\ call.fn = "pages"
  /\ call.status = "running"
  /\ call.url \in {FirstURL, AbsoluteNext}
  /\ \E vs \in PageValues, next \in PageLinks :
       /\ Len(call.values) + Len(vs) <= MaxPageItems
       /\ call' = [call EXCEPT !.values = @ \o vs, !.url = NextURL(call.client, next)]
  /\ UNCHANGED runVars

\* client.go 711, 752 and 817, 845: url is empty, the call returns the list
PageLoopEnd ==
  /\ call.fn = "pages"
  /\ call.status = "running"
  /\ call.url = NoNext
  /\ call' = [call EXCEPT !.status = "ok"]
  /\ UNCHANGED runVars

NextPages ==
  \/ PageError
  \/ PageOK
  \/ PageLoopEnd

\* every request that is sent returns, and the loop takes its next step
SpecPages == InitPages /\ [][NextPages]_vars /\ WF_vars(NextPages)

(***************************************************************************)
(* Properties.                                                             *)
(***************************************************************************)
\* now - t in milliseconds, for instants a few days apart
ElapsedMs(clock, t) == (clock.d - t.d) * DayMs + (clock.ms - t.ms)

\* the gate as the specification words it
GateOpen(last, clock, intervalHours) ==
  last = ZeroTime \/ ElapsedMs(clock, last) >= intervalHours * HourMs

NoNetwork == acc.calls = <<>> /\ notifyLog = <<>>

\* C1: at the top of an iteration the cycle starts if and only if the
\* checkpoint read is the zero time or at least the interval old; an absent
\* checkpoint opens the gate whatever the interval; with the gate closed the
\* iteration makes no fetch and no Notify call and goes to the wait step,
\* from which it can only leave to the next iteration or return.
C1_Gate ==
  [][ /\ (pc = "read" /\ pc' \in {"repos", "skipsleep"}) =>
           /\ lastNotified' = GetLastNotificationTime(file).t
           /\ (pc' = "repos") = GateOpen(lastNotified', now, cfg.IntervalHours)
           /\ NoNetwork'
      /\ (pc = "read" /\ file.kind = "absent" /\ pc' # "read") =>
           pc' = "repos"
      /\ pc = "skipsleep" => (pc' \in {"skipsleep", "top", "done"} /\ NoNetwork')
    ]_vars

\* C1 witness: a checkpoint younger than the interval closed the gate
C1_Witness ==
  /\ pc = "skipsleep"
  /\ lastNotified = AddHours(Clock0, -3)
  /\ cfg.IntervalHours = 6
  /\ NoNetwork

\* C2: the checkpoint file changes only in the step that follows the
\* dispatch of a non-empty batch; a successful write stores the current
\* time; a cycle with an empty batch reaches the wait step with the file as
\* the iteration found it and SetLastNotificationTime not called.
C2_CheckpointFrame ==
  [][ /\ file' # file =>
           /\ pc = "dispatch"
           /\ ni > Len(Notifiers(cfg))
           /\ Len(acc.allPRsToNotify) > 0
      /\ (setResult = "none" /\ setResult' = "ok") =>
           (file' = FileValid(now) /\ Len(acc.allPRsToNotify) > 0)
      /\ (pc' = "sleep" /\ Len(acc'.allPRsToNotify) = 0) =>
           (file' = fileAtTop' /\ setResult' = "none")
    ]_vars

\* C2 witness: a cycle ran on a valid checkpoint, found nothing stale and
\* left the checkpoint as it was
C2_Witness ==
  /\ pc = "sleep"
  /\ fileAtTop = FileValid(AddHours(Clock0, -6))
  /\ Returned > 0
  /\ acc.allPRsToNotify = <<>>
  /\ file = fileAtTop

\* the cycle of this iteration is complete
CycleDone == pc \in {"dispatch", "sleep"}

\* the pull requests the server returned in this iteration, in discovery
\* order, each with its repository
RECURSIVE Discovered(_, _, _)
Discovered(srv, repos, i) ==
  IF i > Len(repos) THEN <<>>
  ELSE LET repo == repos[i]
           here == IF repo \in DOMAIN srv /\ srv[repo].ok
                   THEN [k \in 1..Len(srv[repo].prs) |->
                           [repo |-> repo, entry |-> srv[repo].prs[k]]]
                   ELSE <<>>
       IN  here \o Discovered(srv, repos, i + 1)

\* conditions (1) to (4) of a pull request of the batch
Qualifies(d, at, c) ==
  LET e == d.entry
      lastActivity == GetLastActivity(e.pr, e.comments.values)
      parsed == ParseRFC3339(lastActivity)
  IN  /\ ~containsIgnoreKeyword(e.pr.Title, c.IgnoreKeywords)
      /\ e.participants.ok
      /\ ~IsPRApproved(e.participants.values)
      /\ e.comments.ok
      /\ lastActivity # <<>>
      /\ parsed.ok
      /\ ElapsedMs(at[<<d.repo, e.pr.ID>>], parsed.t) >= c.StaleAfterDays * DayMs

PRsOf(ds) == [i \in 1..Len(ds) |-> ds[i].entry.pr]

\* C3: when a cycle is complete, the global list holds exactly the pull
\* requests that pass the keyword filter, whose participants were fetched
\* and are not fully approved, whose comments were fetched, whose last
\* activity resolves and parses, and that are stale, in discovery order;
\* staleByRepo holds the same pull requests under their own repository, in
\* discovery order, and has no other key.
C3_BatchExact ==
  CycleDone =>
    LET Q == SelectSeq(Discovered(server, cfg.Repositories, 1),
                       LAMBDA d : Qualifies(d, evalAt, cfg))
    IN  /\ acc.allPRsToNotify = PRsOf(Q)
        /\ DOMAIN acc.repoPRsToNotify = {Q[i].repo : i \in 1..Len(Q)}
        /\ \A r \in DOMAIN acc.repoPRsToNotify :
             acc.repoPRsToNotify[r] = PRsOf(SelectSeq(Q, LAMBDA d : d.repo = r))

\* C3 witness: of an approved pull request and one idle for ten days in the
\* same repository, only the second is in the batch
C3_Witness ==
  /\ CycleDone
  /\ "r1" \in DOMAIN server
  /\ server["r1"].prs = <<Entry("approved", 1), Entry("stale", 2)>>
  /\ acc.allPRsToNotify = <<Entry("stale", 2).pr>>
  /\ acc.repoPRsToNotify = [r \in {"r1"} |-> <<Entry("stale", 2).pr>>]

\* the cycle run again from the start on the answers srv, for the
\* repositories repos, with the clock readings of this iteration
Replay(srv, repos) ==
  RepoLoop(EmptyAcc, srv, repos, 1, evalAt, cfg.IgnoreKeywords, cfg.StaleAfterDays)

Batch(a) == <<a.allPRsToNotify, a.repoPRsToNotify, a.prParticipants>>

Lists(a) == <<a.allPRsToNotify, a.repoPRsToNotify>>

Without(repos, r) == SelectSeq(repos, LAMBDA x : x # r)

\* C4: a repository whose ListOpenPRs failed does not make run return an
\* error; when the cycle is complete every configured repository has been
\* asked, and the batch is the batch of the same cycle run without the
\* failing repository in the configuration.
C4_RepoFailureIsolated ==
  /\ (\E r \in DOMAIN server : ~server[r].ok) => result # "err"
  /\ (CycleDone /\ \E r \in DOMAIN server : ~server[r].ok) =>
       /\ \A i \in 1..Len(cfg.Repositories) : cfg.Repositories[i] \in DOMAIN server
       /\ \A r \in DOMAIN server :
            ~server[r].ok =>
              Batch(acc) = Batch(Replay(server, Without(cfg.Repositories, r)))

\* C4 witness: the first repository failed, the second gave a stale PR
C4_Witness ==
  /\ CycleDone
  /\ DOMAIN server = {"r1", "r2"}
  /\ ~server["r1"].ok
  /\ server["r2"].ok
  /\ acc.allPRsToNotify = <<Entry("stale", 1).pr>>
  /\ result = "running"

\* the server without the k-th pull request of repo
RemovePR(srv, repo, k) ==
  [srv EXCEPT ![repo].prs = SubSeq(@, 1, k - 1) \o SubSeq(@, k + 1, Len(@))]

\* GetParticipants or GetComments was called for the PR e of repo and failed
FetchFailed(repo, e) ==
  \E i \in 1..Len(acc.calls) :
    /\ acc.calls[i].repo = repo
    /\ acc.calls[i].id = e.pr.ID
    /\ \/ acc.calls[i].op = "GetParticipants" /\ ~e.participants.ok
       \/ acc.calls[i].op = "GetComments" /\ ~e.comments.ok

\* C5: when a cycle is complete, for every pull request X whose
\* participants or comments fetch failed, the global and the per-repository
\* stale lists are those of the same cycle run on the server without X.
C5_PRFailureIsolated ==
  CycleDone =>
    \A repo \in DOMAIN server :
      \A k \in 1..Len(server[repo].prs) :
        FetchFailed(repo, server[repo].prs[k]) =>
          Lists(acc) = Lists(Replay(RemovePR(server, repo, k), cfg.Repositories))

\* C5 witness: the comments fetch of the first PR failed and the second PR
\* of the same repository is in the batch
C5_Witness ==
  /\ CycleDone
  /\ "r1" \in DOMAIN server
  /\ server["r1"].prs = <<Entry("commfail", 1), Entry("stale", 2)>>
  /\ FetchFailed("r1", Entry("commfail", 1))
  /\ acc.allPRsToNotify = <<Entry("stale", 2).pr>>

\* the channels the specification configures: email, and Teams when a
\* webhook URL is set
ExpectedChannels(c) ==
  <<"email">> \o (IF c.TeamsWebhookURL # "" THEN <<"teams">> ELSE <<>>)

SomeNotifyFailed == \E i \in 1..Len(notifyLog) : notifyLog[i].result = "err"

\* C6: the Notify calls of an iteration are made on the configured channels
\* in turn, one call per channel, each with the batch of the cycle, whatever
\* the earlier calls returned; once the dispatch of a non-empty batch is
\* over every configured channel has had its call; no Notify call is made
\* for an empty batch.
C6_OncePerChannel ==
  /\ Len(notifyLog) <= Len(ExpectedChannels(cfg))
  /\ \A i \in 1..Len(notifyLog) :
       /\ notifyLog[i].channel = ExpectedChannels(cfg)[i]
       /\ notifyLog[i].allPRs = acc.allPRsToNotify
       /\ notifyLog[i].repoPRs = acc.repoPRsToNotify
       /\ notifyLog[i].prParticipants = acc.prParticipants
  /\ notifyLog # <<>> => Len(acc.allPRsToNotify) > 0
  /\ (pc = "sleep" /\ Len(acc.allPRsToNotify) > 0) =>
       Len(notifyLog) = Len(ExpectedChannels(cfg))

\* C6 witness: email failed and Teams was still called, once each
C6_Witness ==
  /\ pc = "sleep"
  /\ Len(notifyLog) = 2
  /\ notifyLog[1].channel = "email" /\ notifyLog[1].result = "err"
  /\ notifyLog[2].channel = "teams" /\ notifyLog[2].result = "ok"

\* C7: Notify failures never make run return an error; the dispatch in
\* which a channel failed is followed by the call of
\* SetLastNotificationTime with the current time, which when it succeeds
\* leaves the checkpoint at the current time, and then by the wait step.
C7_NotifyFailureNotFatal ==
  [][ /\ SomeNotifyFailed' => result' # "err"
      /\ (pc = "dispatch" /\ SomeNotifyFailed /\ pc' # "dispatch") =>
           /\ pc' = "sleep"
           /\ setResult' \in {"ok", "err"}
           /\ setResult' = "ok" => file' = FileValid(now)
    ]_vars

\* C7 witness: every channel failed, the checkpoint is the current time and
\* the loop waits
C7_Witness ==
  /\ pc = "sleep"
  /\ Len(notifyLog) = 2
  /\ \A i \in 1..2 : notifyLog[i].result = "err"
  /\ setResult = "ok"
  /\ file = FileValid(now)
  /\ result = "running"

\* C8 as stated: a checkpoint that exists but cannot be read or cannot be
\* parsed makes run return an error at the top of the iteration, without
\* fetching, notifying or waiting.
C8_ReadFailureFatal ==
  [][ (pc = "read" /\ file.kind \in {"unreadable", "corrupt"}
       /\ pc' # "read") =>
        (pc' = "done" /\ result' = "err" /\ NoNetwork')
    ]_vars

\* C9 as stated: a failed write of the checkpoint makes run return an error
C9_WriteFailureFatal == setResult = "err" => (pc = "done" /\ result = "err")

\* C9 amended: a failed write of the checkpoint is logged only: the step
\* that fails goes to the wait step with run still running, and run does
\* not return an error in that iteration.
C9_WriteFailureLogged ==
  [][ /\ (setResult # "err" /\ setResult' = "err") =>
           (pc' = "sleep" /\ result' = "running")
      /\ setResult' = "err" => result' # "err"
    ]_vars

\* C9 witness: the write failed after a dispatch and the loop waits
C9_Witness ==
  /\ setResult = "err"
  /\ pc = "sleep"
  /\ result = "running"
  /\ Len(notifyLog) = Len(Notifiers(cfg))

\* the loop wrote a valid checkpoint in this iteration
CheckpointWritten == file # fileAtTop /\ file.kind = "valid"

\* C10 as stated: a checkpoint written by the loop belongs to an iteration
\* in which some channel delivered the notification
C10_OnlyAfterDelivery ==
  CheckpointWritten => \E i \in 1..Len(notifyLog) : notifyLog[i].result = "ok"

\* C10 amended: a checkpoint written by the loop is the current time of an
\* iteration whose batch was not empty and in which Notify was called on
\* every configured channel, whether or not any call succeeded.
C10_AfterDispatchAttempt ==
  CheckpointWritten =>
    /\ setResult = "ok"
    /\ file = FileValid(now)
    /\ Len(acc.allPRsToNotify) > 0
    /\ Len(notifyLog) = Len(Notifiers(cfg))

\* C10 witness: the only channel failed and the checkpoint advanced
C10_Witness ==
  /\ CheckpointWritten
  /\ Len(notifyLog) = 1
  /\ notifyLog[1].result = "err"
  /\ fileAtTop = FileValid(AddHours(Clock0, -3))
  /\ file = FileValid(now)

\* C11: once ctx is cancelled run returns; it returns an error only when
\* the read of the checkpoint failed, and nil otherwise.
C11_CancelReturns ==
  /\ [](pc = "done" /\ result # "nil" =>
          result = "err" /\ GetLastNotificationTime(file).err)
  /\ (cancelled ~> pc = "done")

\* C11 witness: cancelled with a batch in hand, run returned nil
C11_Witness ==
  /\ cancelled
  /\ pc = "done"
  /\ result = "nil"
  /\ Len(acc.allPRsToNotify) > 0

\* what a complete iteration leaves behind
IterationComplete ==
  /\ \A i \in 1..Len(cfg.Repositories) : cfg.Repositories[i] \in DOMAIN server
  /\ Batch(acc) = Batch(Replay(server, cfg.Repositories))
  /\ IF Len(acc.allPRsToNotify) > 0
     THEN /\ Len(notifyLog) = Len(Notifiers(cfg))
          /\ setResult \in {"ok", "err"}
          /\ setResult = "ok" => file = FileValid(now)
     ELSE /\ notifyLog = <<>>
          /\ setResult = "none"
          /\ file = fileAtTop

\* C12: run returns nil only from the select at the top or from a wait
\* step, with ctx cancelled; a cancelled iteration that reaches its wait
\* step has asked every repository, dispatched to every channel and written
\* the checkpoint as an iteration that was not cancelled.
C12_CycleNotInterrupted ==
  /\ [][ /\ (pc # "done" /\ pc' = "done" /\ result' = "nil") =>
              (cancelled /\ pc \in {"top", "sleep", "skipsleep"})
         /\ (cancelled /\ pc \in {"repos", "prs", "dispatch"}) => pc' # "done"
       ]_vars
  /\ [](pc = "sleep" => IterationComplete)

\* C12 witness: cancelled inside the iteration, the dispatch went to both
\* channels and the write is about to happen
C12_Witness ==
  /\ cancelled
  /\ pc = "dispatch"
  /\ ni > Len(Notifiers(cfg))
  /\ Len(notifyLog) = 2

\* the latest of a non-empty set of instants
MaxStamp(S) == CHOOSE t \in S : \A u \in S : ~Less(t, u)

CommentStamps(comments) == {comments[i].UpdatedDate : i \in 1..Len(comments)}

\* the resolver as the specification describes it; the zero timestamp of
\* the input is the value 0 of its millisecond fields
RefLastActivity(pr, comments) ==
  IF pr.UpdatedDate = Epoch /\ pr.CreatedDate = Epoch THEN <<>>
  ELSE LET base == IF pr.UpdatedDate = Epoch THEN pr.CreatedDate
                   ELSE pr.UpdatedDate
       IN  FormatRFC3339(MaxStamp({base} \cup CommentStamps(comments)))

ActivityDone == call.fn = "GetLastActivity" /\ call.done

\* C13 as stated: GetLastActivity returns what the reference resolver
\* returns, on every pull request and comment list.
C13_MatchesReference ==
  ActivityDone => call.out = RefLastActivity(call.pr, call.comments)

\* the non-zero timestamps of the input
ValidStamps(pr, comments) ==
  ({pr.UpdatedDate, pr.CreatedDate} \cup CommentStamps(comments)) \ {Epoch}

\* C14 as stated: GetLastActivity returns the empty string exactly when
\* the input has no non-zero timestamp, and the latest of them otherwise.
C14_EmptyOnlyWithoutStamps ==
  ActivityDone =>
    LET V == ValidStamps(call.pr, call.comments)
    IN  IF V = {} THEN call.out = <<>>
        ELSE call.out = FormatRFC3339(MaxStamp(V))

\* C17 as stated: with a non-empty resolved value v, one more comment with
\* updatedAt later than v gives a strictly later resolved value, and one
\* with updatedAt earlier than v gives the same resolved value.
C17_Monotonic ==
  (ActivityDone /\ call.out # <<>> /\ call.added # <<>>) =>
    LET v == ParseRFC3339(call.out).t
        u == UnixMilli(call.added[1].UpdatedDate)
    IN  /\ After(u, v) =>
             (call.out2 # <<>> /\ Less(v, ParseRFC3339(call.out2).t))
        /\ Less(u, v) => call.out2 = call.out

StalenessDone == call.fn = "PRStep" /\ call.done

\* C15 as stated: a pull request whose last activity is exactly n * 24h
\* before the clock reading is appended to the batch, one whose last
\* activity is one millisecond less than that before it is not.
C15_MillisecondBoundary ==
  StalenessDone =>
    /\ call.ago = call.n * DayMs => call.out.stale
    /\ call.ago = call.n * DayMs - 1 => ~call.out.stale

\* C16 as stated: the day count is the floor of the time from the resolved
\* last activity to the clock reading over 24h, and the pull request is
\* appended exactly when that floor is at least the threshold.
C16_FloorDays ==
  StalenessDone =>
    LET floor == ElapsedMs(call.clock, call.out.lastTime) \div DayMs
    IN  /\ call.out.days = floor
        /\ call.out.stale = (floor >= call.n)

\* sub occurs in s at some position
IsSubstring(sub, s) ==
  \E i \in 0..(Len(s) - Len(sub)) : \A j \in 1..Len(sub) : s[i + j] = sub[j]

\* the keyword filter as the specification states it, over the set of the
\* keywords
RefMatch(title, keywords) ==
  \E k \in {keywords[i] : i \in 1..Len(keywords)} :
    IsSubstring(ToLower(k), ToLower(title))

ContainsDone == call.fn = "containsIgnoreKeyword" /\ call.done

FilterDone == call.fn = "FilterPRs" /\ call.done

\* C18: containsIgnoreKeyword(T, K) is true exactly when the lowercase of
\* some keyword of the set of K occurs in the lowercase of T; FilterPRs
\* returns the pull requests for which it is false, in input order, and all
\* of them when K is empty.
C18_KeywordFilter ==
  /\ ContainsDone => call.out = RefMatch(call.title, call.keywords)
  /\ FilterDone =>
       /\ call.out = SelectSeq(call.prs,
                               LAMBDA pr : ~RefMatch(pr.Title, call.keywords))
       /\ call.keywords = <<>> => call.out = call.prs

\* C18 witness: the keyword WIP matched the title "[Wip] x" and FilterPRs
\* kept the other pull request only
C18_Witness ==
  /\ FilterDone
  /\ call.keywords = <<(<<"x">>), (<<"W", "I", "P">>)>>
  /\ Len(call.prs) = 2
  /\ call.prs[1].Title = TitleWip
  /\ call.prs[2].Title = <<>>
  /\ call.out = <<call.prs[2]>>

\* C19 as stated: an empty title is matched by no keyword list, and
\* FilterPRs keeps every pull request with an empty title.
C19_EmptyTitleNeverMatches ==
  /\ (ContainsDone /\ call.title = <<>>) => ~call.out
  /\ FilterDone =>
       \A i \in 1..Len(call.prs) :
         call.prs[i].Title = <<>> =>
           \E j \in 1..Len(call.out) : call.out[j] = call.prs[i]

HasEmptyKeyword(keywords) == \E k \in 1..Len(keywords) : keywords[k] = <<>>

\* C19 amended: an empty title is matched exactly by the keyword lists
\* that hold an empty keyword; FilterPRs keeps a pull request with an empty
\* title exactly when the list holds no empty keyword.
C19_EmptyTitleEmptyKeyword ==
  /\ (ContainsDone /\ call.title = <<>>) =>
       call.out = HasEmptyKeyword(call.keywords)
  /\ FilterDone =>
       \A i \in 1..Len(call.prs) :
         call.prs[i].Title = <<>> =>
           ((\E j \in 1..Len(call.out) : call.out[j] = call.prs[i])
              = ~HasEmptyKeyword(call.keywords))

\* C19 witness: an empty title, two keywords that are not empty, no match
C19_Witness ==
  /\ ContainsDone
  /\ call.title = <<>>
  /\ call.keywords = <<(<<"W", "I", "P">>), (<<"x">>)>>
  /\ ~call.out

\* C20: IsPRApproved(P) is true exactly when every element of P with the
\* role REVIEWER has approved; the other elements have no effect and the
\* empty list is approved.
C20_Approval ==
  (call.fn = "IsPRApproved" /\ call.done) =>
    LET P == call.participants
        reviewers == SelectSeq(P, LAMBDA q : q.Role = "REVIEWER")
    IN  /\ call.out = (\A i \in 1..Len(P) :
                         P[i].Role = "REVIEWER" => P[i].Approved)
        /\ call.out = IsPRApproved(reviewers)
        /\ P = <<>> => call.out

\* C20 witness: the author has not approved, the only reviewer has
C20_Witness ==
  /\ call.fn = "IsPRApproved"
  /\ call.done
  /\ call.participants = <<Author, Reviewer(TRUE)>>
  /\ call.out

\* how many elements of P, from the i-th on, are reviewers, and how many
\* are reviewers who approved
RECURSIVE ReviewersFrom(_, _)
ReviewersFrom(P, i) ==
  IF i > Len(P) THEN 0
  ELSE (IF P[i].Role = "REVIEWER" THEN 1 ELSE 0) + ReviewersFrom(P, i + 1)

RECURSIVE ApprovedFrom(_, _)
ApprovedFrom(P, i) ==
  IF i > Len(P) THEN 0
  ELSE (IF P[i].Role = "REVIEWER" /\ P[i].Approved THEN 1 ELSE 0)
       + ApprovedFrom(P, i + 1)

\* C21: CountApprovals(P) returns as total the number of elements of P
\* with the role REVIEWER and as approved the number of those that have
\* approved, so 0 <= approved <= total; the other elements count in
\* neither number.
C21_CountApprovals ==
  (call.fn = "CountApprovals" /\ call.done) =>
    LET P == call.participants
        IsReviewer(q) == q.Role = "REVIEWER"
    IN  /\ call.out.total = ReviewersFrom(P, 1)
        /\ call.out.approved = ApprovedFrom(P, 1)
        /\ 0 <= call.out.approved
        /\ call.out.approved <= call.out.total
        /\ call.out = CountApprovals(SelectSeq(P, IsReviewer))

\* C21 witness: an author who approved, a reviewer who approved and one
\* who did not: one approval of two
C21_Witness ==
  /\ call.fn = "CountApprovals"
  /\ call.done
  /\ call.participants =
       <<[Role |-> "AUTHOR", Approved |-> TRUE], Reviewer(TRUE), Reviewer(FALSE)>>
  /\ call.out = [approved |-> 1, total |-> 2]

\* C22: when a cycle is complete, the participants map has an entry under
\* the id of every pull request the server returned whose title matches no
\* ignore keyword and whose participants fetch succeeded, approved or not,
\* stale or not.
C22_ParticipantsForAllFetched ==
  CycleDone =>
    LET D == Discovered(server, cfg.Repositories, 1)
    IN  \A i \in 1..Len(D) :
          (/\ ~RefMatch(D[i].entry.pr.Title, cfg.IgnoreKeywords)
           /\ D[i].entry.participants.ok)
            => D[i].entry.pr.ID \in DOMAIN acc.prParticipants

\* C22 witness: an approved pull request and one that is not stale: the
\* batch is empty and the map has both
C22_Witness ==
  /\ CycleDone
  /\ "r1" \in DOMAIN server
  /\ server["r1"].prs = <<Entry("approved", 1), Entry("edge", 2)>>
  /\ acc.allPRsToNotify = <<>>
  /\ DOMAIN acc.prParticipants = {1, 2}

\* the calls of op made for the pull request id of repo in this iteration
CallsOf(op, repo, id) ==
  {i \in 1..Len(acc.calls) : acc.calls[i] = Call(op, repo, id)}

\* C23: GetParticipants is never called for a pull request whose title
\* matches an ignore keyword; GetComments is never called for a pull request
\* whose participants fetch failed or that is fully approved.
C23_FetchesGated ==
  \A i \in 1..Len(acc.calls) :
    LET c == acc.calls[i]
    IN  /\ c.op = "GetParticipants" =>
             ~RefMatch(ServerEntry(server, c.repo, c.id).pr.Title, cfg.IgnoreKeywords)
        /\ c.op = "GetComments" =>
             LET e == ServerEntry(server, c.repo, c.id)
             IN  /\ ~RefMatch(e.pr.Title, cfg.IgnoreKeywords)
                 /\ e.participants.ok
                 /\ \E k \in 1..Len(e.participants.values) :
                      /\ e.participants.values[k].Role = "REVIEWER"
                      /\ ~e.participants.values[k].Approved

\* C23 witness: a keyword-matched pull request had no fetch at all and an
\* approved one had its participants fetched but not its comments
C23_Witness ==
  /\ CycleDone
  /\ DOMAIN server = {"r1", "r2"}
  /\ server["r1"].prs = <<Entry("wip", 1)>>
  /\ server["r2"].prs = <<Entry("approved", 1)>>
  /\ CallsOf("GetParticipants", "r1", 1) = {}
  /\ CallsOf("GetComments", "r1", 1) = {}
  /\ CallsOf("GetParticipants", "r2", 1) # {}
  /\ CallsOf("GetComments", "r2", 1) = {}

\* C24: in one iteration GetParticipants is called at most once and
\* GetComments at most once for each pull request of each repository.
C24_AtMostOnce ==
  \A r \in DOMAIN server :
    \A k \in 1..Len(server[r].prs) :
      LET id == server[r].prs[k].pr.ID
      IN  /\ Cardinality(CallsOf("GetParticipants", r, id)) <= 1
          /\ Cardinality(CallsOf("GetComments", r, id)) <= 1

\* C24 witness: two repositories each hold a pull request with the id 1,
\* and each had one participants and one comments fetch
C24_Witness ==
  /\ CycleDone
  /\ DOMAIN server = {"r1", "r2"}
  /\ server["r1"].prs = <<Entry("stale", 1)>>
  /\ server["r2"].prs = <<Entry("commented", 1)>>
  /\ \A r \in {"r1", "r2"} :
       /\ Cardinality(CallsOf("GetParticipants", r, 1)) = 1
       /\ Cardinality(CallsOf("GetComments", r, 1)) = 1

C26_NoCycleAfterCancel ==
  [][/\ (pc = "top" /\ cancelled) =>
          /\ pc' = "done"
          /\ result' = "nil"
          /\ UNCHANGED <<file, lastNotified, acc, server, notifyLog, setResult>>
     /\ pc = "done" => UNCHANGED vars]_vars

\* C26 witness: the context was cancelled during the first iteration, the
\* timer ended the wait all the same, and the second iteration returned nil
\* at its top: the checkpoint holds a time and was not read, nothing was
\* fetched
C26_Witness ==
  /\ pc = "done"
  /\ result = "nil"
  /\ cancelled
  /\ iter = 1
  /\ file.kind = "valid"
  /\ IsZero(lastNotified)
  /\ acc.calls = <<>>
  /\ notifyLog = <<>>

\* C27: the steps of run follow one another in the order of the state
\* machine.  A checkpoint write is made in the dispatch position after every
\* configured channel was called with the batch of this iteration, and is
\* followed by the wait; a Notify call is made after the repository loop of
\* this iteration is over, with its batch; an iteration starts only from
\* the end of a wait, the checkpoint is read only at the start of an
\* iteration and a cycle starts only from that read.
C27_StateMachineOrder ==
  [][/\ (file' # file \/ (setResult = "none" /\ setResult' # "none")) =>
          /\ pc = "dispatch" /\ pc' = "sleep"
          /\ ri > Len(cfg.Repositories)
          /\ acc.allPRsToNotify # <<>>
          /\ Len(notifyLog) = Len(Notifiers(cfg))
          /\ \A i \in 1..Len(notifyLog) : notifyLog[i].allPRs = acc.allPRsToNotify
     /\ Len(notifyLog') > Len(notifyLog) =>
          /\ pc = "dispatch" /\ pc' = "dispatch"
          /\ ri > Len(cfg.Repositories)
          /\ setResult = "none"
          /\ acc' = acc
          /\ notifyLog'[Len(notifyLog')].allPRs = acc.allPRsToNotify
     /\ pc' # pc =>
          /\ pc' = "top" => pc \in {"sleep", "skipsleep"}
          /\ pc' = "read" => pc = "top"
          /\ pc' = "skipsleep" => pc = "read"
          /\ pc' = "repos" => pc \in {"read", "prs"}
          /\ pc' = "prs" => pc = "repos"
          /\ pc' = "dispatch" => pc = "repos"
          /\ pc' = "sleep" => pc \in {"repos", "dispatch"}]_vars

\* C27 witness: a second iteration, begun after a wait, went through its
\* cycle, the dispatch on two channels and the checkpoint write, and waits
C27_Witness ==
  /\ pc = "sleep"
  /\ iter = 1
  /\ acc.allPRsToNotify # <<>>
  /\ Len(notifyLog) = 2
  /\ setResult = "ok"
  /\ file = FileValid(now)

\* C28: provided every HTTP request returns, the page-following loops of
\* ListOpenPRs and GetComments finish: the call returns its list or an error.
C28_PageLoopsTerminate ==
  <>(call.fn = "pages" /\ call.status # "running")

\* C29: when a cycle is complete, for every pull request in the stale list
\* of a repository the participants map holds, under that pull request's id,
\* the participants the server returned for that pull request of that
\* repository.
C29_OwnParticipants ==
  CycleDone =>
    \A r \in DOMAIN acc.repoPRsToNotify :
      \A i \in 1..Len(acc.repoPRsToNotify[r]) :
        LET id == acc.repoPRsToNotify[r][i].ID
        IN  MapGet(acc.prParticipants, id) = GetParticipants(server, r, id).values

\* C30: the two latest dispatches are at least the interval apart when they
\* were made by the same process, and when they were made by two processes
\* and the checkpoint write that followed the earlier one succeeded.
C30_DispatchesApart ==
  (call.fn = "run" /\ call.last.set /\ call.prev.set
     /\ (call.prev.run = call.last.run \/ call.prev.wrote = "ok")) =>
    GEq(Since(call.last.t, call.prev.t), HoursDuration(cfg.IntervalHours))

\* C30 witness: a dispatch whose checkpoint write succeeded, a restart of
\* the process, and the next dispatch exactly six hours after the first
C30_Witness ==
  /\ call.fn = "run"
  /\ cfg.IntervalHours = 6
  /\ call.prev.set /\ call.last.set
  /\ call.prev.wrote = "ok"
  /\ call.prev.run = 0 /\ call.last.run = 1
  /\ Since(call.last.t, call.prev.t) = HoursDuration(6)

====
